---- MODULE Spec2Model ----
(***************************************************************************)
(* State-machine model of app.py, the admin application of a WhatsApp      *)
(* auto-reply bot: the webhook (subscription verification and inbound      *)
(* messages), the Responder (find_response), the Messaging Gateway         *)
(* (send_whatsapp_message), FAQ maintenance, password reset tokens and the *)
(* crawler behind /train.                                                  *)
(*                                                                         *)
(* Text is modelled as sequences of one-character strings, so that the     *)
(* substring test of is_moderated and the LIKE test of find_response are   *)
(* computed character by character.                                        *)
(***************************************************************************)
EXTENDS Integers, Sequences, FiniteSets, TLC

VARIABLES
    faqs,        \* table faqs: sequence of rows in rowid order
    nextFaqId,   \* the next AUTOINCREMENT id of table faqs
    knowledge,   \* table knowledge: sequence of rows in rowid order
    settings,    \* table settings: key -> value
    environ,     \* os.environ.get('VERIFY_TOKEN'), NoField when unset
    request,     \* the HTTP request handled last
    response,    \* the answer given to it
    gateway,     \* the calls of send_whatsapp_message made while handling it
    lookups,     \* the calls of find_response made while handling it
    faqsBefore,  \* table faqs as it was when that request arrived
    tokens,      \* table password_reset_tokens: sequence of rows
    users,       \* table users: sequence of rows
    now,         \* datetime.now(), in ticks of half an hour
    handlers,    \* the reset_password requests being handled, by server thread
    successes,   \* per token, how many requests were answered 'Password reset successful'
    trainPc,     \* where the train() request is: idle, collecting, returned
    pool         \* the futures train() submitted, in submission order

vars == <<faqs, nextFaqId, knowledge, settings, environ,
          request, response, gateway, lookups, faqsBefore,
          tokens, users, now, handlers, successes, trainPc, pool>>

resetVars == <<tokens, users, now, handlers, successes>>
trainVars == <<trainPc, pool>>

(***************************************************************************)
(* Text.                                                                   *)
(***************************************************************************)

\* A value standing for an absent field, parameter or variable (Python None).
NoField == "<none>"

UpperCase == <<"A", "B", "C", "D", "E", "F", "G", "H", "I", "J", "K", "L", "M",
               "N", "O", "P", "Q", "R", "S", "T", "U", "V", "W", "X", "Y", "Z">>
LowerCase == <<"a", "b", "c", "d", "e", "f", "g", "h", "i", "j", "k", "l", "m",
               "n", "o", "p", "q", "r", "s", "t", "u", "v", "w", "x", "y", "z">>

ToLower ==
    [c \in {UpperCase[i] : i \in 1..26} |-> LowerCase[CHOOSE i \in 1..26 : UpperCase[i] = c]]

\* The lower-case form of one ASCII character.
LowerChar(c) == IF c \in DOMAIN ToLower THEN ToLower[c] ELSE c

\* str.lower()
lower(s) == [i \in 1..Len(s) |-> LowerChar(s[i])]

\* Python's `sub in s` on strings.
Contains(sub, s) ==
    \E i \in 0..(Len(s) - Len(sub)) : SubSeq(s, i + 1, i + Len(sub)) = sub

\* SQLite's `s LIKE p`: % matches any run of characters, _ matches one
\* character, every other character matches itself without regard to ASCII case.
RECURSIVE Like(_, _)
Like(p, s) ==
    IF p = <<>> THEN s = <<>>
    ELSE IF Head(p) = "%" THEN Like(Tail(p), s) \/ (s # <<>> /\ Like(p, Tail(s)))
    ELSE IF s = <<>> THEN FALSE
    ELSE IF Head(p) = "_" THEN Like(Tail(p), Tail(s))
    ELSE LowerChar(Head(p)) = LowerChar(Head(s)) /\ Like(Tail(p), Tail(s))

\* The bound parameter f'%{query}%'.
LikePattern(query) == <<"%">> \o query \o <<"%">>

(***************************************************************************)
(* Moderation.                                                             *)
(***************************************************************************)

bad_keywords ==
    << <<"b", "a", "d", "w", "o", "r", "d", "1">>,
       <<"b", "a", "d", "w", "o", "r", "d", "2">> >>

\* Mutant: the keyword is looked for without lower-casing the content.
is_moderated_case_sensitive(content) ==
    \E k \in 1..Len(bad_keywords) : Contains(lower(bad_keywords[k]), content)

is_moderated(content) ==
    \E k \in 1..Len(bad_keywords) : Contains(lower(bad_keywords[k]), lower(content))

(***************************************************************************)
(* Bounds and input sets.                                                  *)
(***************************************************************************)

\* The number of rows ever inserted into table faqs.
MaxFaqs == 2

\* The number of rows ever inserted into table faqs while the FAQ tree is edited.
MaxFaqTree == 3

Sessions == {"logged_in", "anonymous"}

\* The server threads that handle reset_password requests.
Handlers == {"thread1", "thread2"}

Senders == {"15550001", "15550002"}

T_hours    == <<"h", "o", "u", "r", "s">>
T_HOURS    == <<"H", "O", "U", "R", "S">>
T_whathours == <<"w", "h", "a", "t", " ", "a", "r", "e", " ", "y", "o", "u", "r", " ",
                 "h", "o", "u", "r", "s">>
T_xyz123   == <<"x", "y", "z", "1", "2", "3">>
T_h_urs    == <<"h", "_", "u", "r", "s">>
T_percent  == <<"%">>
T_badword  == <<"b", "a", "d", "w", "o", "r", "d">>
T_badword1 == <<"b", "a", "d", "w", "o", "r", "d", "1">>
T_BadWord2 == <<"s", "e", "e", " ", "B", "a", "d", "W", "o", "r", "d", "2">>
T_ourhours == <<"o", "u", "r", " ", "h", "o", "u", "r", "s">>
T_price    == <<"p", "r", "i", "c", "e">>
T_9to5     == <<"9", "-", "5">>
T_10usd    == <<"1", "0", " ", "u", "s", "d">>
T_page     == <<"o", "p", "e", "n", " ", "h", "o", "u", "r", "s", " ", "9", "-", "5">>
T_page2    == <<"x", "y", "z", "1", "2", "3", "4">>

\* Message bodies a webhook event may carry.
Bodies == {<<>>, T_hours, T_HOURS, T_whathours, T_xyz123, T_h_urs, T_percent,
           T_badword, T_badword1, T_BadWord2}

\* The question and answer of an FAQ the admin may store.
FaqTexts == {<<T_hours, T_9to5>>, <<T_ourhours, T_9to5>>, <<T_whathours, T_9to5>>,
             <<T_price, T_10usd>>}

\* An element of value.messages: 'from' may be missing, 'text' may be missing.
Messages ==
    [from : Senders, hasText : {TRUE}, body : Bodies]
    \cup [from : Senders, hasText : {FALSE}, body : {<<>>}]
    \cup {[from |-> NoField, hasText |-> TRUE, body |-> T_hours]}

\* request.json of a webhook POST, as far as entry[0].changes[0].value.messages:
\* the field may be missing, the list may be empty, and only messages[0] is read.
Payloads ==
    {[hasMessages |-> FALSE, messages |-> <<>>], [hasMessages |-> TRUE, messages |-> <<>>]}
    \cup {[hasMessages |-> TRUE, messages |-> <<m>>] : m \in Messages}
    \cup {[hasMessages |-> TRUE,
           messages |-> <<m, [from |-> "15550002", hasText |-> TRUE, body |-> T_hours]>>] :
              m \in {[from |-> "15550001", hasText |-> TRUE, body |-> T_xyz123]}}

\* hub.verify_token and hub.challenge of a webhook GET; NoField when not supplied.
VerifyTokens == {"", "secret", "other", "envsecret"}
SuppliedTokens == VerifyTokens \cup {NoField}
Challenges == {NoField, "", "1158201444"}

\* Bodies of a settings POST.
SettingsData ==
    [webhook_verify_token : {"", "secret", "other"}]
    \cup [whatsapp_api_token : {"EAAG"}, whatsapp_phone_number : {"", "15559999"}]

\* What requests.post does: it returns (whatever the status) or raises.
GatewayOutcomes == {"returned", "raised"}

(***************************************************************************)
(* Stores.                                                                 *)
(***************************************************************************)

\* SQL NULL in the integer column parent_id; row ids start at 1.
NULL == 0

default_settings ==
    [webhook_verify_token |-> "", whatsapp_api_token |-> "", whatsapp_phone_number |-> ""]

\* Tables knowledge the crawler can have left behind.
KnowledgeRow(u, c) == [url |-> u, content |-> c]
KnowledgeTables ==
    {<<>>, <<KnowledgeRow("http://a", T_page)>>,
     <<KnowledgeRow("http://b", T_page2), KnowledgeRow("http://a", T_page)>>}

(***************************************************************************)
(* Responder and Messaging Gateway.                                        *)
(***************************************************************************)

FALLBACK ==
    <<"S", "o", "r", "r", "y", ",", " ", "I", " ", "d", "o", "n", "'", "t", " ",
      "h", "a", "v", "e", " ", "a", "n", " ", "a", "n", "s", "w", "e", "r", " ",
      "f", "o", "r", " ", "t", "h", "a", "t", ".", " ", "P", "l", "e", "a", "s", "e", " ",
      "c", "o", "n", "t", "a", "c", "t", " ", "s", "u", "p", "p", "o", "r", "t", ".">>

\* SELECT answer FROM faqs WHERE question LIKE ?
FaqMatch(row, query) == Like(LikePattern(query), row.question)

\* SELECT content FROM knowledge WHERE content LIKE ?
KnowledgeMatch(row, query) == Like(LikePattern(query), row.content)

\* Mutant: the knowledge base is searched before the FAQs.
find_response_knowledge_first(query) ==
    LET fm == {i \in DOMAIN faqs : FaqMatch(faqs[i], query)}
        km == {i \in DOMAIN knowledge : KnowledgeMatch(knowledge[i], query)}
    IN  IF km # {} THEN {knowledge[i].content : i \in km}
        ELSE IF fm # {} THEN {faqs[i].answer : i \in fm}
        ELSE {FALLBACK}

\* The values find_response(query) can return. LIMIT 1 without ORDER BY leaves
\* the row to the storage engine, so every matching row is a possible first row.
find_response(query) ==
    LET fm == {i \in DOMAIN faqs : FaqMatch(faqs[i], query)}
        km == {i \in DOMAIN knowledge : KnowledgeMatch(knowledge[i], query)}
    IN  IF fm # {} THEN {faqs[i].answer : i \in fm}
        ELSE IF km # {} THEN {knowledge[i].content : i \in km}
        ELSE {FALLBACK}

\* The request send_whatsapp_message posts.
send_whatsapp_message(to, text) ==
    [phone_number |-> settings.whatsapp_phone_number,
     bearer |-> settings.whatsapp_api_token,
     to |-> to, type |-> "text", body |-> text]

Reply(body, status) == [body |-> body, status |-> status]

\* The text webhook() takes from a message.
MessageText(message) == IF message.hasText THEN message.body ELSE <<>>

\* webhook(), POST.
WebhookPost(payload, outcome) ==
    /\ request' = [op |-> "webhook_post", payload |-> payload]
    /\ IF ~payload.hasMessages
       THEN /\ response' = Reply("OK", 200)
            /\ gateway' = <<>>
            /\ lookups' = <<>>
       ELSE IF payload.messages = <<>> \/ payload.messages[1].from = NoField
       THEN \* IndexError on messages[0], KeyError on message['from']
            /\ response' = Reply("Internal Server Error", 500)
            /\ gateway' = <<>>
            /\ lookups' = <<>>
       ELSE LET message == payload.messages[1]
                sender == message.from
                text == MessageText(message)
            IN  IF is_moderated(text)
                THEN /\ response' = Reply("Moderated", 200)
                     /\ gateway' = <<>>
                     /\ lookups' = <<>>
                ELSE \E r \in find_response(text) :
                     /\ lookups' = <<text>>
                     /\ gateway' = <<send_whatsapp_message(sender, r)>>
                     /\ response' = IF outcome = "raised"
                                    THEN Reply("Internal Server Error", 500)
                                    ELSE Reply("OK", 200)
    /\ faqsBefore' = faqs
    /\ UNCHANGED <<faqs, nextFaqId, knowledge, settings, environ>>
    /\ UNCHANGED <<resetVars, trainVars>>

(***************************************************************************)
(* FAQ maintenance.                                                        *)
(***************************************************************************)

Redirect == Reply("redirect:/login", 302)

FaqRow(id, q, a, p) == [id |-> id, question |-> q, answer |-> a, parent_id |-> p]

\* add_faq(), behind login_required.
add_faq(session, q, a, p) ==
    /\ request' = [op |-> "add_faq", session |-> session, id |-> nextFaqId]
    /\ faqsBefore' = faqs
    /\ gateway' = <<>>
    /\ lookups' = <<>>
    /\ IF session # "logged_in"
       THEN /\ response' = Redirect
            /\ UNCHANGED <<faqs, nextFaqId>>
       ELSE /\ faqs' = Append(faqs, FaqRow(nextFaqId, q, a, p))
            /\ nextFaqId' = nextFaqId + 1
            /\ response' = Reply("json", 200)
    /\ UNCHANGED <<knowledge, settings, environ>>
    /\ UNCHANGED <<resetVars, trainVars>>

\* update_faq(), behind login_required.
update_faq(session, faq_id, q, a) ==
    /\ request' = [op |-> "update_faq", session |-> session, id |-> faq_id]
    /\ faqsBefore' = faqs
    /\ gateway' = <<>>
    /\ lookups' = <<>>
    /\ IF session # "logged_in"
       THEN /\ response' = Redirect
            /\ UNCHANGED faqs
       ELSE /\ faqs' = [i \in DOMAIN faqs |->
                          IF faqs[i].id = faq_id
                          THEN [faqs[i] EXCEPT !.question = q, !.answer = a]
                          ELSE faqs[i]]
            /\ response' = Reply("json", 200)
    /\ UNCHANGED <<nextFaqId, knowledge, settings, environ>>
    /\ UNCHANGED <<resetVars, trainVars>>

\* Mutant: the sub-FAQs are left in place.
DeleteChildrenSkipped(table, faq_id) == table

\* DELETE FROM faqs WHERE parent_id = ?
DeleteChildren(table, faq_id) ==
    LET Keep(row) == ~(row.parent_id # NULL /\ row.parent_id = faq_id)
    IN  SelectSeq(table, Keep)

\* DELETE FROM faqs WHERE id = ?
DeleteRow(table, faq_id) ==
    LET Keep(row) == row.id # faq_id IN SelectSeq(table, Keep)

\* delete_faq(), behind login_required.
delete_faq(session, faq_id) ==
    /\ request' = [op |-> "delete_faq", session |-> session, id |-> faq_id]
    /\ faqsBefore' = faqs
    /\ gateway' = <<>>
    /\ lookups' = <<>>
    /\ IF session # "logged_in"
       THEN /\ response' = Redirect
            /\ UNCHANGED faqs
       ELSE /\ faqs' = DeleteRow(DeleteChildren(faqs, faq_id), faq_id)
            /\ response' = Reply("json", 200)
    /\ UNCHANGED <<nextFaqId, knowledge, settings, environ>>
    /\ UNCHANGED <<resetVars, trainVars>>

(***************************************************************************)
(* Settings and webhook subscription verification.                         *)
(***************************************************************************)

\* update_setting() for every item of data: INSERT OR REPLACE by key.
UpdateSettings(data) ==
    [k \in DOMAIN settings |-> IF k \in DOMAIN data THEN data[k] ELSE settings[k]]

\* settings(), POST, behind login_required.
settings_post(session, data) ==
    /\ request' = [op |-> "settings_post", session |-> session]
    /\ IF session # "logged_in"
       THEN /\ response' = Redirect
            /\ UNCHANGED settings
       ELSE /\ settings' = UpdateSettings(data)
            /\ response' = Reply("json", 200)
    /\ gateway' = <<>>
    /\ lookups' = <<>>
    /\ UNCHANGED <<faqs, nextFaqId, knowledge, environ, faqsBefore>>
    /\ UNCHANGED <<resetVars, trainVars>>

\* Python truth of an optional string: None and '' are false.
Truthy(v) == v # NoField /\ v # ""

\* get_setting('webhook_verify_token') or os.environ.get('VERIFY_TOKEN')
verify_token ==
    IF Truthy(settings.webhook_verify_token) THEN settings.webhook_verify_token ELSE environ

\* What Flask makes of the view's return value: a view that returns None fails.
View(value) ==
    IF value = NoField THEN Reply("Internal Server Error", 500) ELSE Reply(value, 200)

\* Mutant: the supplied token is compared without the check for a configured one.
WebhookGetUnconfigured(token_supplied, challenge) ==
    /\ request' = [op |-> "webhook_get", token |-> token_supplied, challenge |-> challenge]
    /\ response' = IF token_supplied = verify_token
                   THEN View(challenge)
                   ELSE Reply("Verification failed", 403)
    /\ gateway' = <<>>
    /\ lookups' = <<>>
    /\ UNCHANGED <<faqs, nextFaqId, knowledge, settings, environ, faqsBefore>>
    /\ UNCHANGED <<resetVars, trainVars>>

\* webhook(), GET.
WebhookGet(token_supplied, challenge) ==
    /\ request' = [op |-> "webhook_get", token |-> token_supplied, challenge |-> challenge]
    /\ response' = IF ~Truthy(verify_token)
                   THEN Reply("Verification token not configured", 403)
                   ELSE IF token_supplied = verify_token
                   THEN View(challenge)
                   ELSE Reply("Verification failed", 403)
    /\ gateway' = <<>>
    /\ lookups' = <<>>
    /\ UNCHANGED <<faqs, nextFaqId, knowledge, settings, environ, faqsBefore>>
    /\ UNCHANGED <<resetVars, trainVars>>

(***************************************************************************)
(* The message path: FAQs are added, inbound messages are answered.        *)
(***************************************************************************)

NoRequest == [op |-> "none"]

\* generate_password_hash(password); the salt is left out.
generate_password_hash(password) == <<"pbkdf2:sha256", password>>

\* init_db(): the default admin user, no reset token; no request is being handled.
InitReset ==
    /\ tokens = <<>>
    /\ users = <<[username |-> "Admin", password |-> generate_password_hash("Admin"),
                  email |-> "admin@example.com"]>>
    /\ now = 0
    /\ handlers = [h \in Handlers |-> [pc |-> "idle"]]
    /\ successes = [t \in {} |-> 0]
    /\ trainPc = "idle"
    /\ pool = <<>>

\* No request has been handled yet.
InitObserved ==
    /\ request = NoRequest
    /\ response = Reply("", 0)
    /\ gateway = <<>>
    /\ lookups = <<>>
    /\ faqsBefore = <<>>

Init ==
    /\ faqs = <<>>
    /\ nextFaqId = 1
    /\ knowledge \in KnowledgeTables
    /\ settings = default_settings
    /\ environ = NoField
    /\ InitObserved
    /\ InitReset

Next ==
    \/ /\ nextFaqId <= MaxFaqs
       /\ \E s \in Sessions, qa \in FaqTexts : add_faq(s, qa[1], qa[2], NULL)
    \/ \E p \in Payloads, o \in GatewayOutcomes : WebhookPost(p, o)

Spec == Init /\ [][Next]_vars

(***************************************************************************)
(* Claims about the message path, checked under Spec.                      *)
(***************************************************************************)

\* The request handled last is a webhook POST carrying a message with a sender.
PostWithMessage ==
    /\ request.op = "webhook_post"
    /\ request.payload.hasMessages
    /\ request.payload.messages # <<>>
    /\ request.payload.messages[1].from # NoField

PostedMessage == request.payload.messages[1]

\* word occurs in text at offset i, letter case aside.
OccursAt(word, text, i) ==
    /\ i + Len(word) <= Len(text)
    /\ \A j \in 1..Len(word) : LowerChar(text[i + j]) = LowerChar(word[j])

\* text contains a deny-listed keyword, compared case-insensitively.
DenyListed(text) ==
    \E k \in 1..Len(bad_keywords) : \E i \in 0..Len(text) : OccursAt(bad_keywords[k], text, i)

\* C2: a webhook POST whose message text contains a deny-listed keyword
\* (case-insensitive substring) invokes neither find_response nor
\* send_whatsapp_message.
C2_ModeratedNeverSends ==
    (/\ request.op = "webhook_post"
     /\ request.payload.hasMessages
     /\ request.payload.messages # <<>>
     /\ request.payload.messages[1].hasText
     /\ DenyListed(request.payload.messages[1].body))
    => (gateway = <<>> /\ lookups = <<>>)

C2_Witness ==
    /\ PostWithMessage
    /\ PostedMessage.hasText
    /\ PostedMessage.body = T_BadWord2
    /\ response = Reply("Moderated", 200)
    /\ gateway = <<>>

\* The FAQs whose question occurs as a substring of text.
FaqsWithQuestionIn(text) == {i \in DOMAIN faqs : Contains(faqs[i].question, text)}

\* C3: when a stored FAQ's question occurs as a substring of the inbound text,
\* the Responder returns the answer of such an FAQ, not the fallback.
C3_QuestionInTextAnswered ==
    (/\ PostWithMessage
     /\ lookups # <<>>
     /\ FaqsWithQuestionIn(lookups[1]) # {})
    => (/\ gateway # <<>>
        /\ gateway[1].body \in {faqs[i].answer : i \in FaqsWithQuestionIn(lookups[1])})

MatchingFaqs(query) == {i \in DOMAIN faqs : FaqMatch(faqs[i], query)}
MatchingKnowledge(query) == {i \in DOMAIN knowledge : KnowledgeMatch(knowledge[i], query)}

\* C8: the Responder answers from a matching FAQ whenever one matches, from a
\* matching knowledge entry only when no FAQ matches, and with the fallback
\* string exactly when neither store matches.
C8_StoreOrder ==
    (request.op = "webhook_post" /\ lookups # <<>>)
    => LET q == lookups[1]
           r == gateway[1].body
       IN  /\ MatchingFaqs(q) # {} => r \in {faqs[i].answer : i \in MatchingFaqs(q)}
           /\ r \in {knowledge[i].content : i \in DOMAIN knowledge}
                 => (MatchingFaqs(q) = {} /\ r \in {knowledge[i].content : i \in MatchingKnowledge(q)})
           /\ r = FALLBACK <=> (MatchingFaqs(q) = {} /\ MatchingKnowledge(q) = {})

C8_Witness ==
    /\ request.op = "webhook_post"
    /\ lookups = <<T_hours>>
    /\ MatchingFaqs(T_hours) # {}
    /\ MatchingKnowledge(T_hours) # {}
    /\ gateway[1].body = T_9to5

\* C9: the Responder and the Messaging Gateway run only for a payload whose
\* message carries a text body, then exactly one reply goes to the sender of
\* that message; a payload without a message field is answered ('OK', 200)
\* with no lookup and no send.
C9_OnlyTextMessagesAnswered ==
    request.op = "webhook_post"
    => /\ (lookups # <<>> \/ gateway # <<>>)
            => (/\ PostWithMessage
                /\ PostedMessage.hasText
                /\ Len(gateway) = 1
                /\ gateway[1].to = PostedMessage.from)
       /\ ~request.payload.hasMessages
            => (response = Reply("OK", 200) /\ gateway = <<>> /\ lookups = <<>>)

(***************************************************************************)
(* Subscription verification: the verify token is set, GET /webhook asks.  *)
(***************************************************************************)

InitVerify ==
    /\ faqs = <<>>
    /\ nextFaqId = 1
    /\ knowledge = <<>>
    /\ settings = default_settings
    /\ environ \in {NoField, "", "envsecret"}
    /\ InitObserved
    /\ InitReset

NextVerify ==
    \/ \E s \in Sessions, d \in SettingsData : settings_post(s, d)
    \/ \E tk \in SuppliedTokens, ch \in Challenges : WebhookGet(tk, ch)

SpecVerify == InitVerify /\ [][NextVerify]_vars

\* The verify token the deployment is configured with: the stored setting when
\* it is not empty, else the VERIFY_TOKEN variable when it is not empty.
ConfiguredToken ==
    IF settings.webhook_verify_token # "" THEN settings.webhook_verify_token
    ELSE IF environ # NoField /\ environ # "" THEN environ
    ELSE NoField

TreeTexts == {<<T_hours, T_9to5>>, <<T_price, T_10usd>>}

InitFaq ==
    /\ faqs = <<>>
    /\ nextFaqId = 1
    /\ knowledge = <<>>
    /\ settings = default_settings
    /\ environ = NoField
    /\ InitObserved
    /\ InitReset

NextFaq ==
    \/ /\ nextFaqId <= MaxFaqTree
       /\ \E s \in Sessions, qa \in TreeTexts, p \in {NULL} \cup (1..MaxFaqTree) :
             add_faq(s, qa[1], qa[2], p)
    \/ \E s \in Sessions, id \in 1..MaxFaqTree, qa \in TreeTexts :
          update_faq(s, id, qa[1], qa[2])
    \/ \E s \in Sessions, id \in 1..MaxFaqTree : delete_faq(s, id)

SpecFaq == InitFaq /\ [][NextFaq]_vars

\* The positions in table of the row faq_id and of its direct children.
RowAndChildren(table, faq_id) ==
    {i \in DOMAIN table : table[i].id = faq_id \/ table[i].parent_id = faq_id}

ChildrenOf(table, faq_id) ==
    {i \in DOMAIN table : table[i].parent_id = faq_id /\ table[i].id # faq_id}

Rows(table) == {table[i] : i \in DOMAIN table}

\* C7: deleting an FAQ removes that row and the rows whose parent_id is its id,
\* and leaves every other row as it was: three rows go when it has two
\* children, one row when it has none.
C7_DeleteCascade ==
    (request.op = "delete_faq" /\ request.session = "logged_in")
    => LET gone == RowAndChildren(faqsBefore, request.id)
           exists == \E i \in DOMAIN faqsBefore : faqsBefore[i].id = request.id
           removed == Len(faqsBefore) - Len(faqs)
       IN  /\ Rows(faqs) = {faqsBefore[i] : i \in DOMAIN faqsBefore \ gone}
           /\ removed = Cardinality(gone)
           /\ (exists /\ Cardinality(ChildrenOf(faqsBefore, request.id)) = 2) => removed = 3
           /\ (exists /\ ChildrenOf(faqsBefore, request.id) = {}) => removed = 1

C7_Witness ==
    /\ request.op = "delete_faq"
    /\ request.session = "logged_in"
    /\ \E i \in DOMAIN faqsBefore : faqsBefore[i].id = request.id
    /\ Cardinality(ChildrenOf(faqsBefore, request.id)) = 2
    /\ Len(faqsBefore) = 3
    /\ faqs = <<>>

(***************************************************************************)
(* Password reset: tokens are issued, time passes, reset_password requests *)
(* are handled by server threads that share the database.                  *)
(***************************************************************************)

\* The number of reset tokens ever issued.
MaxTokens == 1

\* The last tick of the clock.
MaxTime == 3

\* timedelta(hours=1), in ticks of half an hour.
TOKEN_LIFETIME == 2

Emails == {"admin@example.com", "nobody@example.com"}
Passwords == {"hunter2", "letmein"}
Methods == {"GET", "POST"}

\* The <token> of a reset_password URL: an issued token or one never issued.
TokenValues == 1..(MaxTokens + 1)

StepTaken(op) ==
    /\ request' = [op |-> op]
    /\ response' = Reply("", 0)
    /\ UNCHANGED <<gateway, lookups, faqsBefore>>

\* Time passes.
Tick ==
    /\ now < MaxTime
    /\ now' = now + 1
    /\ StepTaken("tick")
    /\ UNCHANGED <<faqs, nextFaqId, knowledge, settings, environ,
                   tokens, users, handlers, successes, trainVars>>

\* Whether smtplib delivers the mail or raises.
MailOutcomes == {"sent", "raised"}

\* Mutant: the token expires two hours after it is issued.
ExpiresAtTwoHours(issued) == issued + 2 * TOKEN_LIFETIME

\* expires_at = datetime.now() + timedelta(hours=1)
ExpiresAt(issued) == issued + TOKEN_LIFETIME

\* forgot_password(), POST: the token is stored, then the mail is sent.
forgot_password(email, mail) ==
    /\ tokens' = Append(tokens, [email |-> email, token |-> Len(tokens) + 1,
                                 expires_at |-> ExpiresAt(now), used |-> FALSE,
                                 created_at |-> now])
    /\ successes' = [t \in 1..(Len(tokens) + 1) |-> IF t \in DOMAIN successes THEN successes[t] ELSE 0]
    /\ request' = [op |-> "forgot_password", email |-> email]
    /\ response' = IF mail = "sent"
                   THEN Reply("Reset link sent to your email.", 200)
                   ELSE Reply("Error sending email", 200)
    /\ UNCHANGED <<gateway, lookups, faqsBefore>>
    /\ UNCHANGED <<faqs, nextFaqId, knowledge, settings, environ, users, now, handlers, trainVars>>

\* SELECT email, expires_at, used FROM password_reset_tokens WHERE token = ?
\* and fetchone(): a sequence holding the row, or empty.
SelectToken(token) ==
    LET Is(row) == row.token = token IN SelectSeq(tokens, Is)

\* Mutant: a used token is not turned away.
RejectedIgnoringUsed(rows, time) ==
    rows = <<>> \/ time > rows[1].expires_at

\* not row or row[2] or datetime.now() > datetime.fromisoformat(row[1])
Rejected(rows, time) ==
    rows = <<>> \/ rows[1].used \/ time > rows[1].expires_at

Invalid == Reply("Invalid or expired token.", 200)
ResetDone == Reply("Password reset successful", 200)

\* What the request found when it arrived, kept for the answer's record.
Arrival(h, token, method) ==
    [op |-> "reset_password", handler |-> h, token |-> token, method |-> method,
     known |-> SelectToken(token) # <<>>,
     used |-> SelectToken(token) # <<>> /\ SelectToken(token)[1].used,
     age |-> IF SelectToken(token) # <<>> THEN now - SelectToken(token)[1].created_at ELSE 0]

\* reset_password(), from connecting to the return of a rejected request or of
\* a GET, or up to the form of a POST being read: the SELECT runs in
\* autocommit, so other requests run between it and the UPDATEs.
reset_password_select(h, token, method, password) ==
    /\ handlers[h].pc = "idle"
    /\ LET rows == SelectToken(token)
       IN  IF Rejected(rows, now)
           THEN /\ request' = Arrival(h, token, method)
                /\ response' = Invalid
                /\ UNCHANGED handlers
           ELSE IF method = "GET"
           THEN /\ request' = Arrival(h, token, method)
                /\ response' = Reply("reset_password.html", 200)
                /\ UNCHANGED handlers
           ELSE /\ request' = [op |-> "reset_password_select", handler |-> h]
                /\ response' = Reply("", 0)
                /\ handlers' = [handlers EXCEPT ![h] =
                                  [pc |-> "selected", email |-> rows[1].email,
                                   password |-> password, arrival |-> Arrival(h, token, method)]]
    /\ UNCHANGED <<gateway, lookups, faqsBefore>>
    /\ UNCHANGED <<faqs, nextFaqId, knowledge, settings, environ, tokens, users, now, successes, trainVars>>

\* UPDATE users SET password = ? WHERE email = ?
UpdatePassword(email, hashed) ==
    [i \in DOMAIN users |->
        IF users[i].email = email THEN [users[i] EXCEPT !.password = hashed] ELSE users[i]]

\* UPDATE password_reset_tokens SET used = TRUE WHERE token = ?
MarkUsed(token) ==
    [i \in DOMAIN tokens |->
        IF tokens[i].token = token THEN [tokens[i] EXCEPT !.used = TRUE] ELSE tokens[i]]

\* reset_password(), POST, from the first UPDATE to the return: one transaction.
reset_password_update(h) ==
    /\ handlers[h].pc = "selected"
    /\ users' = UpdatePassword(handlers[h].email, generate_password_hash(handlers[h].password))
    /\ tokens' = MarkUsed(handlers[h].arrival.token)
    /\ successes' = [successes EXCEPT ![handlers[h].arrival.token] = @ + 1]
    /\ handlers' = [handlers EXCEPT ![h] = [pc |-> "idle"]]
    /\ request' = handlers[h].arrival
    /\ response' = ResetDone
    /\ UNCHANGED <<gateway, lookups, faqsBefore>>
    /\ UNCHANGED <<faqs, nextFaqId, knowledge, settings, environ, now, trainVars>>

InitResetSpec ==
    /\ faqs = <<>>
    /\ nextFaqId = 1
    /\ knowledge = <<>>
    /\ settings = default_settings
    /\ environ = NoField
    /\ InitObserved
    /\ InitReset

NextReset ==
    \/ Tick
    \/ /\ Len(tokens) < MaxTokens
       /\ \E e \in Emails, m \in MailOutcomes : forgot_password(e, m)
    \/ \E h \in Handlers, tk \in TokenValues, m \in Methods, pw \in Passwords :
          reset_password_select(h, tk, m, pw)
    \/ \E h \in Handlers : reset_password_update(h)

SpecReset == InitResetSpec /\ [][NextReset]_vars

TokenRow(table, token) == table[CHOOSE i \in DOMAIN table : table[i].token = token]

\* C1: the first POST with an issued, unexpired token is answered 'Password
\* reset successful' and marks the token used; every request that arrives once
\* the token is marked used, GET or POST, is answered 'Invalid or expired
\* token.' and changes no user's password.
C1_SingleUse ==
    [][(request'.op = "reset_password" /\ request'.known)
        => /\ request'.used
                => (response' = Invalid /\ users' = users /\ tokens' = tokens)
           /\ (request'.method = "POST" /\ ~request'.used /\ request'.age <= TOKEN_LIFETIME)
                => (response' = ResetDone /\ TokenRow(tokens', request'.token).used)]_vars

C1_Witness ==
    /\ request.op = "reset_password"
    /\ request.known
    /\ request.used
    /\ request.method = "POST"
    /\ successes[request.token] = 1
    /\ response = Invalid

\* C5: a request that arrives more than one hour after the token was issued is
\* answered 'Invalid or expired token.' even when the token is unused; it
\* leaves the used flag as it was and changes no user's password.
C5_ExpiredRejected ==
    [][(request'.op = "reset_password" /\ request'.known /\ request'.age > TOKEN_LIFETIME)
        => (response' = Invalid /\ users' = users /\ tokens' = tokens)]_vars

C5_Witness ==
    /\ request.op = "reset_password"
    /\ request.known
    /\ ~request.used
    /\ request.age > TOKEN_LIFETIME
    /\ ~TokenRow(tokens, request.token).used
    /\ response = Invalid

\* C10: however reset_password POST requests with the same token interleave,
\* at most one of them is answered 'Password reset successful'.
C10_AtMostOneSuccess ==
    \A t \in DOMAIN successes : successes[t] <= 1

(***************************************************************************)
(* Training: train() submits one crawl per URL to a pool of worker         *)
(* threads and stores each result as its future completes.                 *)
(***************************************************************************)

\* The longest list of URLs a train request carries.
MaxUrls == 3

\* ThreadPoolExecutor(max_workers=5)
MAX_WORKERS == 5

Urls == {"http://a", "http://b"}

UrlLists == UNION {[1..n -> Urls] : n \in 0..MaxUrls}

\* What requests.get(url, timeout=10) and the parsing after it meet: a response
\* with a status and the text its body leaves once tags are stripped and
\* entities unescaped, or an exception (no connection, timeout, bad URL).
Fetches ==
    [kind : {"response"}, status : {200}, content : {T_page}]
    \cup [kind : {"response"}, status : {404, 500}, content : {T_page2}]
    \cup [kind : {"exception"}, status : {0}, content : {<<>>}]

\* The result of a crawl that produced nothing (Python None).
NoData == [url |-> NoField, content |-> <<>>]

\* Mutant: the status of the response is not looked at.
crawl_url_any_status(url, fetch) ==
    IF fetch.kind = "exception" THEN NoData
    ELSE KnowledgeRow(url, fetch.content)

\* crawl_url(url)
crawl_url(url, fetch) ==
    IF fetch.kind = "exception" THEN NoData
    ELSE IF fetch.status # 200 THEN NoData
    ELSE KnowledgeRow(url, fetch.content)

\* save_to_knowledge(data)
save_to_knowledge(data) == Append(knowledge, data)

Running == {i \in DOMAIN pool : pool[i].state = "running"}

\* train(), behind login_required, up to the futures being submitted.
train_submit(session, urls) ==
    /\ trainPc = "idle"
    /\ IF session # "logged_in"
       THEN /\ request' = [op |-> "train", session |-> session, urls |-> urls,
                           had |-> Len(knowledge)]
            /\ response' = Redirect
            /\ UNCHANGED <<trainPc, pool>>
       ELSE /\ request' = [op |-> "train", session |-> session, urls |-> urls,
                           had |-> Len(knowledge)]
            /\ response' = Reply("", 0)
            /\ pool' = [i \in DOMAIN urls |->
                          [url |-> urls[i], state |-> "queued", fetch |-> NoField,
                           result |-> NoData]]
            /\ trainPc' = "collecting"
    /\ UNCHANGED <<gateway, lookups, faqsBefore>>
    /\ UNCHANGED <<faqs, nextFaqId, knowledge, settings, environ, resetVars>>

\* A worker thread of the pool takes the oldest queued crawl; at most
\* MAX_WORKERS crawls run at a time.
worker_take(i) ==
    /\ trainPc = "collecting"
    /\ pool[i].state = "queued"
    /\ \A j \in 1..(i - 1) : pool[j].state # "queued"
    /\ Cardinality(Running) < MAX_WORKERS
    /\ pool' = [pool EXCEPT ![i].state = "running"]
    /\ UNCHANGED <<trainPc, request, response, gateway, lookups, faqsBefore>>
    /\ UNCHANGED <<faqs, nextFaqId, knowledge, settings, environ, resetVars>>

\* The worker's crawl_url(url) returns and its future completes.
worker_finish(i, fetch) ==
    /\ trainPc = "collecting"
    /\ pool[i].state = "running"
    /\ pool' = [pool EXCEPT ![i] = [url |-> pool[i].url, state |-> "done", fetch |-> fetch,
                                    result |-> crawl_url(pool[i].url, fetch)]]
    /\ UNCHANGED <<trainPc, request, response, gateway, lookups, faqsBefore>>
    /\ UNCHANGED <<faqs, nextFaqId, knowledge, settings, environ, resetVars>>

\* One turn of the loop over as_completed(futures): a completed future is
\* yielded, and its data, if any, saved.
train_collect(i) ==
    /\ trainPc = "collecting"
    /\ pool[i].state = "done"
    /\ pool' = [pool EXCEPT ![i].state = "yielded"]
    /\ knowledge' = IF pool[i].result # NoData
                    THEN save_to_knowledge(pool[i].result)
                    ELSE knowledge
    /\ UNCHANGED <<trainPc, request, response, gateway, lookups, faqsBefore>>
    /\ UNCHANGED <<faqs, nextFaqId, settings, environ, resetVars>>

\* The loop is over, the executor is shut down, train() returns.
train_return ==
    /\ trainPc = "collecting"
    /\ \A i \in DOMAIN pool : pool[i].state = "yielded"
    /\ trainPc' = "returned"
    /\ response' = Reply("json success", 200)
    /\ UNCHANGED <<pool, request, gateway, lookups, faqsBefore>>
    /\ UNCHANGED <<faqs, nextFaqId, knowledge, settings, environ, resetVars>>

InitTrain ==
    /\ faqs = <<>>
    /\ nextFaqId = 1
    /\ knowledge \in KnowledgeTables
    /\ settings = default_settings
    /\ environ = NoField
    /\ InitObserved
    /\ InitReset

NextTrain ==
    \/ \E s \in Sessions, us \in UrlLists : train_submit(s, us)
    \/ \E i \in DOMAIN pool : worker_take(i)
    \/ \E i \in DOMAIN pool, f \in Fetches : worker_finish(i, f)
    \/ \E i \in DOMAIN pool : train_collect(i)
    \/ train_return

SpecTrain == InitTrain /\ [][NextTrain]_vars

\* The crawls whose fetch failed: a status other than 200, or an exception.
FailedCrawls == {i \in DOMAIN pool : pool[i].fetch.kind = "exception" \/ pool[i].fetch.status # 200}

\* The rows the train request added to table knowledge.
AddedRows == SubSeq(knowledge, request.had + 1, Len(knowledge))

\* C4: when train() returns, it has added exactly N - M knowledge entries for
\* N URLs of which M failed, one for each URL fetched successfully, and it
\* answers success however many failed.
C4_CrawlCount ==
    trainPc = "returned"
    => /\ Len(knowledge) - request.had = Len(pool) - Cardinality(FailedCrawls)
       /\ \A u \in Urls :
             Cardinality({k \in DOMAIN AddedRows : AddedRows[k].url = u})
               = Cardinality({i \in DOMAIN pool \ FailedCrawls : pool[i].url = u})
       /\ response = Reply("json success", 200)

C4_Witness ==
    /\ trainPc = "returned"
    /\ Len(pool) = 3
    /\ Cardinality(FailedCrawls) = 2
    /\ \E i, j \in FailedCrawls : pool[i].fetch.kind = "exception" /\ pool[j].fetch.status = 404
    /\ Len(knowledge) - request.had = 1

====
